---- MODULE Spec2Model ----
(***************************************************************************)
(* A model of appbundler: SupplementalData's resolution of the locations   *)
(* to copy, AppBundler.bundle() and its steps over a file system, and the  *)
(* cd context manager.                                                     *)
(*                                                                         *)
(* Strings are sequences of one-character strings, so that str.lstrip,     *)
(* str.replace, str.upper, fnmatch and pathlib's parsing are computed      *)
(* character by character.  A path is the sequence of its components (all  *)
(* paths are absolute POSIX paths); StrOf and ParsePath convert between a  *)
(* path and its text.  The file system maps each existing path to "dir"    *)
(* or to the content of a regular file.                                    *)
(***************************************************************************)
EXTENDS Integers, Sequences, FiniteSets, TLC

VARIABLES
    fs,        \* the file system: path |-> "dir" or a file's content
    args,      \* the arguments of SupplementalData(...) and of the run
    data,      \* the SupplementalData object (its attributes and how __init__ ended)
    pc,        \* where the run is
    steps,     \* the steps of bundle() that were started, in order
    outcome,   \* how bundle() ended: "none", "returned" or the exception raised
    installs,  \* how many times the installer subprocess was run
    walk,      \* os.walk of _cleanup_files: the directories still to visit
    fs0,       \* the file system when bundle() was called
    fsData,    \* the file system when _handle_supplemental_data was entered
    fsClean,   \* the file system when _cleanup_files was entered
    cwd,       \* the process's working directory
    cdobj,     \* the cd object: original_dir and new_dir
    cdpc,      \* where the with-statement is
    cdhist     \* the latest with-statement: the working directory before and after __enter__

vars == <<fs, args, data, pc, steps, outcome, installs, walk, fs0, fsData, fsClean,
          cwd, cdobj, cdpc, cdhist>>
runVars == <<args, data, pc, steps, outcome, installs, walk, fs0, fsData, fsClean>>
cdVars == <<cwd, cdobj, cdpc, cdhist>>

------------------------------------------------------------------------------
(* Bounds of the model.                                                    *)

\* how many entries a sub_directories list may have
MaxSubs == 2

------------------------------------------------------------------------------
(* Text.                                                                   *)

S_slash == <<"/">>
S_build == <<"b","u","i","l","d">>
S_pycache == <<"_","_","p","y","c","a","c","h","e","_","_">>
S_dotpyc == <<".","p","y","c">>
S_dotzip == <<".","z","i","p">>
S_requirements == <<"r","e","q","u","i","r","e","m","e","n","t","s",".","t","x","t">>
S_setup == <<"s","e","t","u","p",".","p","y">>

N_app == <<"a","p","p">>
N_myapp == <<"m","y","a","p","p">>
N_main_py == <<"m","a","i","n",".","p","y">>
N_data == <<"d","a","t","a">>
N_test_json == <<"t","e","s","t",".","j","s","o","n">>
N_test2_json == <<"t","e","s","t","2",".","j","s","o","n">>
N_sub == <<"s","u","b">>
N_sub_json == <<"s","u","b",".","j","s","o","n">>
N_sub2_yaml == <<"s","u","b","2",".","y","a","m","l">>
N_data2 == <<"d","a","t","a","2">>
N_a_json == <<"a",".","j","s","o","n">>
N_b_json == <<"b",".","j","s","o","n">>
N_tmp == <<"t","m","p">>
N_old_txt == <<"o","l","d",".","t","x","t">>
N_toml == <<"t","o","m","l">>
N_decoder_py == <<"d","e","c","o","d","e","r",".","p","y">>
N_decoder_pyc == <<"d","e","c","o","d","e","r",".","p","y","c">>
N_x_pyc == <<"x",".","p","y","c">>
S_app == <<"/","a","p","p">>
S_appdata == <<"/","a","p","p","/","d","a","t","a">>
S_rootdata == <<"/","d","a","t","a">>
S_tmp == <<"/","t","m","p">>
S_sub == <<"/","s","u","b">>
S_data2 == <<"d","a","t","a","2">>
S_json == <<"*",".","j","s","o","n">>
S_yaml == <<"*",".","y","a","m","l">>
S_recjson == <<"*","*","/","*",".","j","s","o","n">>
A_Y == <<"Y">>
A_y == <<"y">>
A_y_sp == <<" ","y"," ">>
A_N == <<"N">>
A_empty == <<>>
A_yes == <<"y","e","s">>

\* the characters of the model, in the order a directory listing sorts by
Chars == <<" ","*",".","/","2","E","N","S","Y","\\","_","a","b","c","d","e","h",
           "i","j","l","m","n","o","p","q","r","s","t","u","x","y","z">>

CharIdx(c) == CHOOSE i \in 1..Len(Chars) : Chars[i] = c

RECURSIVE LexLess(_, _)
LexLess(a, b) ==
    IF b = <<>> THEN FALSE
    ELSE IF a = <<>> THEN TRUE
    ELSE IF Head(a) = Head(b) THEN LexLess(Tail(a), Tail(b))
    ELSE CharIdx(Head(a)) < CharIdx(Head(b))

RECURSIVE SortNames(_)
SortNames(S) ==
    IF S = {} THEN <<>>
    ELSE LET m == CHOOSE x \in S : \A y \in S \ {x} : LexLess(x, y)
         IN  <<m>> \o SortNames(S \ {m})

Range(s) == {s[i] : i \in 1..Len(s)}

IsPrefix(p, s) == Len(p) <= Len(s) /\ SubSeq(s, 1, Len(p)) = p

Drop(s, n) == SubSeq(s, n + 1, Len(s))

RECURSIVE LStrip(_, _)
LStrip(s, cs) ==
    IF s # <<>> /\ Head(s) \in cs THEN LStrip(Tail(s), cs) ELSE s

RECURSIVE RStrip(_, _)
RStrip(s, cs) ==
    IF s # <<>> /\ s[Len(s)] \in cs THEN RStrip(SubSeq(s, 1, Len(s) - 1), cs) ELSE s

Whitespace == {" ", "\t", "\n"}

Strip(s) == RStrip(LStrip(s, Whitespace), Whitespace)

LowerCase == <<"a","b","c","d","e","f","g","h","i","j","k","l","m",
               "n","o","p","q","r","s","t","u","v","w","x","y","z">>

UpperCase == <<"A","B","C","D","E","F","G","H","I","J","K","L","M",
               "N","O","P","Q","R","S","T","U","V","W","X","Y","Z">>

UpperChar(c) ==
    IF \E i \in 1..Len(LowerCase) : LowerCase[i] = c
    THEN UpperCase[CHOOSE i \in 1..Len(LowerCase) : LowerCase[i] = c]
    ELSE c

Upper(s) == [i \in 1..Len(s) |-> UpperChar(s[i])]

RECURSIVE Replace(_, _, _)
Replace(s, old, new) ==
    IF Len(s) < Len(old) THEN s
    ELSE IF IsPrefix(old, s) THEN new \o Replace(Drop(s, Len(old)), old, new)
    ELSE <<Head(s)>> \o Replace(Tail(s), old, new)

RECURSIVE FnMatch(_, _)
FnMatch(name, pat) ==
    IF pat = <<>> THEN name = <<>>
    ELSE IF Head(pat) = "*"
         THEN \E k \in 0..Len(name) : FnMatch(Drop(name, k), Tail(pat))
    ELSE name # <<>> /\ Head(name) = Head(pat) /\ FnMatch(Tail(name), Tail(pat))

\* the index of the last "." of a name, 0 when there is none
RECURSIVE RFindDot(_, _)
RFindDot(name, i) ==
    IF i = 0 THEN 0 ELSE IF name[i] = "." THEN i ELSE RFindDot(name, i - 1)

Suffix(name) ==
    LET i == RFindDot(name, Len(name))
    IN  IF 1 < i /\ i < Len(name) THEN Drop(name, i - 1) ELSE <<>>

Stem(name) ==
    LET i == RFindDot(name, Len(name))
    IN  IF 1 < i /\ i < Len(name) THEN SubSeq(name, 1, i - 1) ELSE name

------------------------------------------------------------------------------
(* Paths.                                                                  *)

RECURSIVE SplitAcc(_, _, _)
SplitAcc(s, cur, acc) ==
    IF s = <<>> THEN (IF cur = <<>> THEN acc ELSE Append(acc, cur))
    ELSE IF Head(s) = "/"
         THEN SplitAcc(Tail(s), <<>>, IF cur = <<>> THEN acc ELSE Append(acc, cur))
    ELSE SplitAcc(Tail(s), Append(cur, Head(s)), acc)

ParsePath(s) == SplitAcc(s, <<>>, <<>>)

RECURSIVE StrOf(_)
StrOf(p) ==
    IF p = <<>> THEN S_slash
    ELSE IF Len(p) = 1 THEN S_slash \o p[1]
    ELSE StrOf(SubSeq(p, 1, Len(p) - 1)) \o S_slash \o p[Len(p)]

JoinPath(p, s) == p \o ParsePath(s)

Parent(p) == SubSeq(p, 1, Len(p) - 1)

Name(p) == p[Len(p)]

------------------------------------------------------------------------------
(* The file system.  The root <<>> always exists.                          *)

Exists(f, p) == p = <<>> \/ p \in DOMAIN f

IsDir(f, p) == p = <<>> \/ (p \in DOMAIN f /\ f[p] = "dir")

IsFile(f, p) == p \in DOMAIN f /\ f[p] # "dir"

\* os.scandir / os.listdir: the names in a directory, listed by name
ListDir(f, d) ==
    SortNames({Name(p) : p \in {q \in DOMAIN f : Len(q) = Len(d) + 1 /\ Parent(q) = d}})

SubDirs(f, d) == LET T(n) == IsDir(f, Append(d, n)) IN SelectSeq(ListDir(f, d), T)

Files(f, d) == LET T(n) == IsFile(f, Append(d, n)) IN SelectSeq(ListDir(f, d), T)

Prefixes(p) == {SubSeq(p, 1, k) : k \in 1..Len(p)}

\* Path.mkdir(parents=True) on a path that does not exist
MkdirParents(f, p) ==
    [q \in DOMAIN f \cup Prefixes(p) |-> IF q \in DOMAIN f THEN f[q] ELSE "dir"]

\* shutil.rmtree
RmTree(f, p) == [q \in {r \in DOMAIN f : ~IsPrefix(p, r)} |-> f[q]]

\* Path.unlink
Unlink(f, p) == [q \in DOMAIN f \ {p} |-> f[q]]

\* shutil.copy2(src, dst) where dst is an existing directory: the file keeps
\* its name and replaces what is there
Copy2(f, src, dstdir) ==
    LET dst == IF IsDir(f, dstdir) THEN Append(dstdir, Name(src)) ELSE dstdir
    IN  [q \in DOMAIN f \cup {dst} |-> IF q = dst THEN f[src] ELSE f[q]]

\* every directory at or below d, a directory before what it contains
RECURSIVE DirsBelow(_, _)
DirsBelow(f, d) ==
    LET subs == SubDirs(f, d)
        rec[i \in 0..Len(subs)] ==
            IF i = 0 THEN <<>> ELSE rec[i - 1] \o DirsBelow(f, Append(d, subs[i]))
    IN  <<d>> \o rec[Len(subs)]

\* every regular file at or below d
FilesBelow(f, d) == {p \in DOMAIN f : IsPrefix(d, p) /\ f[p] # "dir"}

\* Path.glob: the pattern's components are matched one directory level each,
\* "**" standing for this directory and every directory below it
RECURSIVE GlobFrom(_, _, _)
GlobFrom(f, d, comps) ==
    IF comps = <<>> THEN <<d>>
    ELSE IF ~IsDir(f, d) THEN <<>>
    ELSE IF Head(comps) = <<"*", "*">>
         THEN LET ds == DirsBelow(f, d)
                  rec[i \in 0..Len(ds)] ==
                      IF i = 0 THEN <<>>
                      ELSE rec[i - 1] \o GlobFrom(f, ds[i], Tail(comps))
              IN  rec[Len(ds)]
    ELSE LET T(n) == FnMatch(n, Head(comps))
             ns == SelectSeq(ListDir(f, d), T)
             rec[i \in 0..Len(ns)] ==
                 IF i = 0 THEN <<>>
                 ELSE rec[i - 1] \o GlobFrom(f, Append(d, ns[i]), Tail(comps))
         IN  rec[Len(ns)]

Glob(f, d, pattern) == GlobFrom(f, d, ParsePath(pattern))

------------------------------------------------------------------------------
(* SupplementalData.                                                       *)

\* the keyword parameters __init__ declares besides directory
CtorKeywords == {"sub_directories", "pattern"}

\* the for loop over sub_directories: the paths appended to
\* self.locations_to_copy, or <<"ValueError">> at the first that does not exist
RECURSIVE SubLoop(_, _, _, _)
SubLoop(f, directory, subs, acc) ==
    IF subs = <<>> THEN [raised |-> FALSE, paths |-> acc]
    ELSE LET sub == LStrip(Head(subs), {"/", "\\"})
             current == JoinPath(directory, sub)
         IN  IF ~Exists(f, current)
             THEN [raised |-> TRUE, paths |-> acc]
             ELSE SubLoop(f, directory, Tail(subs), Append(acc, current))

\* the for loop over locations: the matches of each, appended in turn
RECURSIVE GlobLoop(_, _, _, _)
GlobLoop(f, locations, pattern, acc) ==
    IF locations = <<>> THEN acc
    ELSE GlobLoop(f, Tail(locations), pattern, acc \o Glob(f, Head(locations), pattern))

\* SupplementalData(directory, **a.keywords): how the call ends and the
\* attributes of the object
SupplementalDataInit(f, a) ==
    LET directory == ParsePath(a.directory)
        noObject == [status |-> "TypeError", directory |-> directory,
                     locations_to_copy |-> <<>>]
    IN  IF ~(a.keywords \subseteq CtorKeywords) THEN noObject
        ELSE LET subsGiven == "sub_directories" \in a.keywords
                 patternGiven == "pattern" \in a.keywords
                 locations == IF ~subsGiven THEN <<directory>> ELSE <<>>
                 loop == IF subsGiven
                         THEN SubLoop(f, directory, a.sub_directories, <<>>)
                         ELSE [raised |-> FALSE, paths |-> <<>>]
             IN  IF loop.raised
                 THEN [status |-> "ValueError", directory |-> directory,
                       locations_to_copy |-> loop.paths]
                 ELSE [status |-> "ok", directory |-> directory,
                       locations_to_copy |->
                           IF ~patternGiven THEN locations
                           ELSE GlobLoop(f, locations, a.pattern, loop.paths)]

------------------------------------------------------------------------------
(* AppBundler.                                                             *)

app_directory == ParsePath(S_app)

package_name == N_myapp

package_dir == JoinPath(app_directory, package_name)

\* Path(build_directory).joinpath('build'), for build_directory = "/tmp"
build_directory == JoinPath(ParsePath(S_tmp), S_build)

\* a variant that ignores the exit status, as check=False would
RunUnchecked(status) == "none"

\* subprocess.run(cmd, check=True): what it raises for the installer's exit status
RunChecked(status) == IF status # 0 THEN "CalledProcessError" ELSE "none"

\* a variant that takes any answer starting with 'Y' for a yes
OverwriteStartsWithY(decision) == IsPrefix(A_Y, Upper(Strip(decision)))

\* decision.strip().upper() == 'Y'
Overwrite(decision) == Upper(Strip(decision)) = A_Y

\* what the installer may leave in the target directory when it succeeds
InstallerTrees ==
    { (<<N_toml>> :> "dir") @@ (<<N_toml, N_decoder_py>> :> "toml.decoder"),
      (<<N_toml>> :> "dir") @@ (<<N_toml, N_decoder_py>> :> "toml.decoder")
        @@ (<<N_toml, S_pycache>> :> "dir")
        @@ (<<N_toml, S_pycache, N_decoder_pyc>> :> "bytecode")
        @@ (<<N_toml, N_x_pyc>> :> "bytecode"),
      (<<S_pycache>> :> "dir") @@ (<<S_pycache, S_pycache>> :> "dir")
        @@ (<<S_pycache, S_pycache, N_x_pyc>> :> "bytecode")
        @@ (<<S_pycache, N_decoder_py>> :> "toml.decoder")
        @@ (<<N_x_pyc>> :> "bytecode") @@ (<<S_dotpyc>> :> "hidden")
        @@ (<<N_toml>> :> "dir") @@ (<<N_toml, N_sub>> :> "dir")
        @@ (<<N_toml, N_sub, S_pycache>> :> "dir") }

\* pip install ... -t target, when it exits with status 0
Install(f, target, tree) ==
    LET new == {target \o r : r \in DOMAIN tree}
    IN  [q \in DOMAIN f \cup new |->
            IF q \in new THEN tree[Drop(q, Len(target))] ELSE f[q]]

\* shutil.copytree(src, dst)
CopyTree(f, src, dst) ==
    IF ~IsDir(f, src) THEN [raised |-> "FileNotFoundError", fs |-> f]
    ELSE IF Exists(f, dst) THEN [raised |-> "FileExistsError", fs |-> f]
    ELSE LET below == {q \in DOMAIN f : IsPrefix(src, q)}
             new == {dst \o Drop(q, Len(src)) : q \in below}
             made == MkdirParents(f, dst)
         IN  [raised |-> "none",
              fs |-> [q \in DOMAIN made \cup new |->
                         IF q \in new THEN f[src \o Drop(q, Len(dst))] ELSE made[q]]]

\* dst_dir = Path(text.replace(src_base, dst_base))
DstDir(text, src_base, dst_base) == ParsePath(Replace(text, src_base, dst_base))

\* if not dst_dir.exists(): dst_dir.mkdir(parents=True)
EnsureDir(st, d) ==
    IF st.raised # "none" \/ Exists(st.fs, d) THEN st
    ELSE IF \E q \in Prefixes(d) : IsFile(st.fs, q)
         THEN [st EXCEPT !.raised = "NotADirectoryError"]
    ELSE [st EXCEPT !.fs = MkdirParents(st.fs, d)]

\* shutil.copy2(src, str(dst_dir))
CopyInto(st, src, d) ==
    IF st.raised # "none" THEN st
    ELSE IF ~IsFile(st.fs, src)
         THEN [st EXCEPT !.raised = "FileNotFoundError"]
    ELSE [st EXCEPT !.fs = Copy2(st.fs, src, d)]

\* for file in file_names: shutil.copy2(os.path.join(dir_path, file), str(dst_dir))
RECURSIVE CopyFiles(_, _, _, _)
CopyFiles(st, dir_path, file_names, d) ==
    IF file_names = <<>> THEN st
    ELSE CopyFiles(CopyInto(st, Append(dir_path, Head(file_names)), d),
                   dir_path, Tail(file_names), d)

\* for dir_path, dir_names, file_names in os.walk(str(src)): todo holds the
\* directories os.walk has still to list, the next one first
RECURSIVE CopyWalk(_, _, _, _)
CopyWalk(st, todo, src_base, dst_base) ==
    IF todo = <<>> \/ st.raised # "none" THEN st
    ELSE LET dir_path == Head(todo)
         IN  IF ~IsDir(st.fs, dir_path)
             THEN CopyWalk(st, Tail(todo), src_base, dst_base)
             ELSE LET dir_names == SubDirs(st.fs, dir_path)
                      file_names == Files(st.fs, dir_path)
                      d == DstDir(StrOf(dir_path), src_base, dst_base)
                      st1 == CopyFiles(EnsureDir(st, d), dir_path, file_names, d)
                      below == [i \in 1..Len(dir_names) |-> Append(dir_path, dir_names[i])]
                  IN  CopyWalk(st1, below \o Tail(todo), src_base, dst_base)

\* the body of "for src in data.locations_to_copy"
CopyLocation(st, src, src_base, dst_base) ==
    IF st.raised # "none" THEN st
    ELSE IF IsDir(st.fs, src) THEN CopyWalk(st, <<src>>, src_base, dst_base)
    ELSE LET d == DstDir(StrOf(Parent(src)), src_base, dst_base)
         IN  CopyInto(EnsureDir(st, d), src, d)

RECURSIVE CopyLocations(_, _, _, _)
CopyLocations(st, locations, src_base, dst_base) ==
    IF locations = <<>> THEN st
    ELSE CopyLocations(CopyLocation(st, Head(locations), src_base, dst_base),
                       Tail(locations), src_base, dst_base)

\* the destination root of a data set: build_directory.joinpath(data.directory.stem)
DstRoot(d) == Append(build_directory, Stem(Name(d.directory)))

\* _handle_supplemental_data for the one data set of the run
HandleData(f, d) ==
    CopyLocations([raised |-> "none", fs |-> f], d.locations_to_copy,
                  StrOf(d.directory), StrOf(DstRoot(d)))

\* a variant that looks for __pycache__ in the build directory itself only
DirsToDeleteTopOnly(f, root) ==
    IF root = build_directory /\ IsDir(f, Append(root, S_pycache))
    THEN <<Append(root, S_pycache)>> ELSE <<>>

\* _cleanup_files: the two lists one iteration of the loop over os.walk builds
DirsToDelete(f, root) ==
    LET T(x) == x = S_pycache
        xs == SelectSeq(SubDirs(f, root), T)
    IN  [i \in 1..Len(xs) |-> Append(root, xs[i])]

FilesToDelete(f, root) ==
    LET T(x) == Suffix(x) = S_dotpyc
        xs == SelectSeq(Files(f, root), T)
    IN  [i \in 1..Len(xs) |-> Append(root, xs[i])]

\* for d in dirs_to_delete: shutil.rmtree(d)
RECURSIVE RmTrees(_, _)
RmTrees(st, ds) ==
    IF ds = <<>> \/ st.raised # "none" THEN st
    ELSE IF ~IsDir(st.fs, Head(ds))
         THEN [st EXCEPT !.raised = "FileNotFoundError"]
    ELSE RmTrees([st EXCEPT !.fs = RmTree(st.fs, Head(ds))], Tail(ds))

\* for f in files_to_delete: f.unlink()
RECURSIVE Unlinks(_, _)
Unlinks(st, xs) ==
    IF xs = <<>> \/ st.raised # "none" THEN st
    ELSE IF ~IsFile(st.fs, Head(xs))
         THEN [st EXCEPT !.raised = "FileNotFoundError"]
    ELSE Unlinks([st EXCEPT !.fs = Unlink(st.fs, Head(xs))], Tail(xs))

CleanupBody(f, root) ==
    Unlinks(RmTrees([raised |-> "none", fs |-> f], DirsToDelete(f, root)),
            FilesToDelete(f, root))

\* _zip_files: shutil.make_archive, then shutil.move into the build directory
ZipFiles(f) ==
    LET zip_file == Append(Parent(build_directory), package_name \o S_dotzip)
        archive == Append(Parent(zip_file), Stem(Name(zip_file)) \o S_dotzip)
        made == [q \in DOMAIN f \cup {archive} |-> IF q = archive THEN "zip" ELSE f[q]]
        real_dst == Append(build_directory, Name(zip_file))
    IN  IF ~IsFile(made, zip_file) THEN [raised |-> "FileNotFoundError", fs |-> made]
        ELSE IF Exists(made, real_dst) THEN [raised |-> "Error", fs |-> made]
        ELSE [raised |-> "none",
              fs |-> [q \in (DOMAIN made \ {zip_file}) \cup {real_dst} |->
                         IF q = real_dst THEN made[zip_file] ELSE made[q]]]

------------------------------------------------------------------------------
(* The run: SupplementalData(...), AppBundler(...), bundle().              *)

\* the app directory of the tests, a second data directory at the root (its
\* sub-directory's name starts with its own), and the build directory's parent
BaseFs ==
    (<<N_app>> :> "dir") @@ (<<N_app, N_myapp>> :> "dir")
    @@ (<<N_app, N_myapp, N_main_py>> :> "myapp.main")
    @@ (<<N_app, N_data>> :> "dir")
    @@ (<<N_app, N_data, N_test_json>> :> "test")
    @@ (<<N_app, N_data, N_test2_json>> :> "test2")
    @@ (<<N_app, N_data, N_sub>> :> "dir")
    @@ (<<N_app, N_data, N_sub, N_sub_json>> :> "sub")
    @@ (<<N_app, N_data, N_sub, N_sub2_yaml>> :> "sub2")
    @@ (<<N_data>> :> "dir") @@ (<<N_data, N_a_json>> :> "a")
    @@ (<<N_data, N_data2>> :> "dir") @@ (<<N_data, N_data2, N_b_json>> :> "b")
    @@ (<<N_tmp>> :> "dir")

Manifests == {"requirements", "setup", "none"}

WithManifest(f, m) ==
    IF m = "requirements" THEN f @@ (Append(app_directory, S_requirements) :> "toml")
    ELSE IF m = "setup" THEN f @@ (Append(app_directory, S_setup) :> "setup")
    ELSE f

OldBuild ==
    (build_directory :> "dir") @@ (Append(build_directory, N_old_txt) :> "old")
    @@ (Append(build_directory, N_data) :> "dir")
    @@ (<<N_tmp, S_build, N_data, N_test_json>> :> "stale")

InitialFs ==
    {WithManifest(f, m) : f \in {BaseFs, BaseFs @@ OldBuild}, m \in Manifests}

Directories == {S_appdata, S_rootdata}

SubChoices == {S_sub, S_data2}

SubLists == UNION {[1..n -> SubChoices] : n \in 0..MaxSubs}

Patterns == {S_json, S_yaml, S_recjson}

Keywords == {"sub_directories", "pattern", "recursive", "flatten"}

Answers == {A_Y, A_y, A_y_sp, A_N, A_empty, A_yes}

NoData == [status |-> "none", directory |-> <<>>, locations_to_copy |-> <<>>]

NoAnswer == <<"-">>

InitCdIdle ==
    /\ cwd = <<>>
    /\ cdobj = [original_dir |-> <<>>, new_dir |-> <<>>]
    /\ cdpc = "off"
    /\ cdhist = <<>>

Init ==
    /\ fs \in InitialFs
    /\ args \in [directory : Directories,
                 keywords : SUBSET Keywords,
                 sub_directories : SubLists,
                 pattern : Patterns \cup {<<>>},
                 supplemental_data : BOOLEAN,
                 make_zip : BOOLEAN,
                 decision : {NoAnswer},
                 installer_status : {-1}]
    /\ ("sub_directories" \notin args.keywords => args.sub_directories = <<>>)
    /\ ("pattern" \in args.keywords <=> args.pattern # <<>>)
    /\ data = NoData
    /\ pc = "ctor"
    /\ steps = <<>>
    /\ outcome = "none"
    /\ installs = 0
    /\ walk = <<>>
    /\ fs0 = fs
    /\ fsData = fs
    /\ fsClean = fs
    /\ InitCdIdle

\* data = SupplementalData(directory, ...); the run goes on to bundle() only
\* when the constructor returns
Construct ==
    /\ pc = "ctor"
    /\ data' = SupplementalDataInit(fs, args)
    /\ pc' = IF data'.status = "ok" THEN "bundle" ELSE "done"
    /\ UNCHANGED <<fs, args, steps, outcome, installs, walk, fs0, fsData, fsClean>>
    /\ UNCHANGED cdVars

\* bundle(), its first step: the build directory, and the prompt when it exists
CreateBuildDirectory ==
    /\ pc = "bundle"
    /\ steps' = Append(steps, "mkdir")
    /\ fs0' = fs
    /\ IF ~Exists(fs, build_directory)
       THEN /\ fs' = MkdirParents(fs, build_directory)
            /\ pc' = "install"
            /\ UNCHANGED <<args, outcome>>
       ELSE \E decision \in Answers :
            /\ args' = [args EXCEPT !.decision = decision]
            /\ IF Overwrite(decision)
               THEN /\ fs' = MkdirParents(RmTree(fs, build_directory), build_directory)
                    /\ pc' = "install"
                    /\ UNCHANGED outcome
               ELSE /\ pc' = "done"
                    /\ outcome' = "returned"
                    /\ UNCHANGED fs
    /\ UNCHANGED <<data, installs, walk, fsData, fsClean>>
    /\ UNCHANGED cdVars

\* _install_dependencies; the installer's exit status and what it installs are
\* the environment's
InstallDependencies ==
    /\ pc = "install"
    /\ steps' = Append(steps, "install")
    /\ LET requirements_file == Append(app_directory, S_requirements)
           setup_file == Append(app_directory, S_setup)
           package_copy_required == Exists(fs, requirements_file)
       IN  IF ~Exists(fs, requirements_file) /\ ~Exists(fs, setup_file)
           THEN /\ outcome' = "ValueError"
                /\ pc' = "done"
                /\ UNCHANGED <<fs, installs, args>>
           ELSE \E status \in {0, 1}, tree \in InstallerTrees :
                /\ installs' = installs + 1
                /\ args' = [args EXCEPT !.installer_status = status]
                /\ LET installed == IF status = 0
                                    THEN Install(fs, build_directory, tree) ELSE fs
                       copied == CopyTree(installed, package_dir, build_directory)
                   IN  IF RunChecked(status) # "none"
                       THEN /\ outcome' = RunChecked(status)
                            /\ pc' = "done"
                            /\ fs' = installed
                       ELSE IF package_copy_required
                            THEN /\ fs' = copied.fs
                                 /\ IF copied.raised # "none"
                                    THEN outcome' = copied.raised /\ pc' = "done"
                                    ELSE pc' = "supplemental" /\ UNCHANGED outcome
                            ELSE /\ fs' = installed
                                 /\ pc' = "supplemental"
                                 /\ UNCHANGED outcome
    /\ UNCHANGED <<data, walk, fs0, fsData, fsClean>>
    /\ UNCHANGED cdVars

\* _handle_supplemental_data; supplemental_data is None unless it was given
HandleSupplementalData ==
    /\ pc = "supplemental"
    /\ steps' = Append(steps, "supplemental")
    /\ fsData' = fs
    /\ IF ~args.supplemental_data
       THEN /\ outcome' = "TypeError"
            /\ pc' = "done"
            /\ UNCHANGED fs
       ELSE LET st == HandleData(fs, data)
            IN  /\ fs' = st.fs
                /\ IF st.raised # "none"
                   THEN outcome' = st.raised /\ pc' = "done"
                   ELSE pc' = "cleanup" /\ UNCHANGED outcome
    /\ UNCHANGED <<args, data, installs, walk, fs0, fsClean>>
    /\ UNCHANGED cdVars

\* _cleanup_files is entered: os.walk starts at the build directory
CleanupEnter ==
    /\ pc = "cleanup"
    /\ steps' = Append(steps, "cleanup")
    /\ walk' = <<build_directory>>
    /\ fsClean' = fs
    /\ pc' = "walking"
    /\ UNCHANGED <<fs, args, data, outcome, installs, fs0, fsData>>
    /\ UNCHANGED cdVars

\* the orders in which the operating system may list the entries xs
Orders(xs) ==
    {[i \in 1..Len(xs) |-> xs[g[i]]] :
        g \in {h \in [1..Len(xs) -> 1..Len(xs)] :
                  \A i, j \in 1..Len(xs) : h[i] = h[j] => i = j}}

\* one iteration of the loop over os.walk: the next directory is listed (one
\* that cannot be listed is skipped), the loop body deletes, and the listed
\* sub-directories are walked next, deleted or not, in the order of the listing
CleanupVisit ==
    /\ pc = "walking"
    /\ walk # <<>>
    /\ LET root == Head(walk)
       IN  IF ~IsDir(fs, root)
           THEN /\ walk' = Tail(walk)
                /\ UNCHANGED <<fs, pc, outcome>>
           ELSE LET st == CleanupBody(fs, root)
                IN  /\ fs' = st.fs
                    /\ \E dirs \in Orders(SubDirs(fs, root)) :
                         walk' = [i \in 1..Len(dirs) |-> Append(root, dirs[i])]
                                   \o Tail(walk)
                    /\ IF st.raised # "none"
                       THEN outcome' = st.raised /\ pc' = "done"
                       ELSE UNCHANGED <<pc, outcome>>
    /\ UNCHANGED <<args, data, steps, installs, fs0, fsData, fsClean>>
    /\ UNCHANGED cdVars

\* os.walk is exhausted: _cleanup_files returns, and bundle() too unless make_zip
CleanupExit ==
    /\ pc = "walking"
    /\ walk = <<>>
    /\ IF args.make_zip
       THEN pc' = "zip" /\ UNCHANGED outcome
       ELSE pc' = "done" /\ outcome' = "returned"
    /\ UNCHANGED <<fs, args, data, steps, installs, walk, fs0, fsData, fsClean>>
    /\ UNCHANGED cdVars

\* _zip_files, and bundle() returns
ZipStep ==
    /\ pc = "zip"
    /\ steps' = Append(steps, "zip")
    /\ LET z == ZipFiles(fs)
       IN  /\ fs' = z.fs
           /\ outcome' = IF z.raised # "none" THEN z.raised ELSE "returned"
    /\ pc' = "done"
    /\ UNCHANGED <<args, data, installs, walk, fs0, fsData, fsClean>>
    /\ UNCHANGED cdVars

Next ==
    \/ Construct
    \/ CreateBuildDirectory
    \/ InstallDependencies
    \/ HandleSupplementalData
    \/ CleanupEnter
    \/ CleanupVisit
    \/ CleanupExit
    \/ ZipStep

Spec == Init /\ [][Next]_vars

------------------------------------------------------------------------------
(* The cd context manager, used by a with-statement.                       *)

D_a == <<"/","a">>
D_ab == <<"/","a","/","b">>
D_up == <<".",".">>
D_b == <<"b">>
D_missing == <<"/","x">>

Destinations == {D_a, D_ab, D_up, D_b, D_missing}

\* the directories of the with-statement's runs: /a, /a/b, /c
CdTree == (<<<<"a">>>> :> "dir") @@ (<<<<"a">>, <<"b">>>> :> "dir") @@ (<<<<"c">>>> :> "dir")

\* the directory a path's text names, seen from directory c: each component
\* is entered in turn and must be a directory
RECURSIVE Enter(_, _, _)
Enter(f, c, comps) ==
    IF ~IsDir(f, c) THEN [ok |-> FALSE, path |-> c]
    ELSE IF comps = <<>> THEN [ok |-> TRUE, path |-> c]
    ELSE IF Head(comps) = <<".", ".">>
         THEN Enter(f, IF c = <<>> THEN c ELSE Parent(c), Tail(comps))
    ELSE IF Head(comps) = <<".">> THEN Enter(f, c, Tail(comps))
    ELSE Enter(f, Append(c, Head(comps)), Tail(comps))

\* os.chdir(text) in working directory c: the new working directory, c itself
\* when the call raises
Chdir(f, c, text) ==
    LET r == Enter(f, IF IsPrefix(S_slash, text) THEN <<>> ELSE c, ParsePath(text))
    IN  [ok |-> r.ok, cwd |-> IF r.ok THEN r.path ELSE c]

\* os.getcwd()
GetCwd(c) == StrOf(c)

\* cd.__init__
CdInit(c, destination) == [original_dir |-> GetCwd(c), new_dir |-> destination]

\* the directory __enter__ changes to
EnterDir(obj) == obj.new_dir

\* a variant that goes to the destination again
ExitDirNew(obj) == obj.new_dir

\* the directory __exit__ changes to
ExitDir(obj) == obj.original_dir

NoCd == [original_dir |-> <<>>, new_dir |-> <<>>]

NoHist == [constructed |-> <<>>, entry |-> <<>>, inside |-> <<>>,
           exit |-> "none", restored |-> FALSE]

InitRunIdle ==
    /\ args = [directory |-> <<>>, keywords |-> {}, sub_directories |-> <<>>,
               pattern |-> <<>>, supplemental_data |-> FALSE, make_zip |-> FALSE,
               decision |-> NoAnswer, installer_status |-> -1]
    /\ data = NoData
    /\ pc = "off"
    /\ steps = <<>>
    /\ outcome = "none"
    /\ installs = 0
    /\ walk = <<>>
    /\ fs0 = fs
    /\ fsData = fs
    /\ fsClean = fs

InitCdRun ==
    /\ fs = CdTree
    /\ cwd \in DOMAIN CdTree \cup {<<>>}
    /\ cdobj = NoCd
    /\ cdpc = "idle"
    /\ cdhist = NoHist
    /\ InitRunIdle

\* c = cd(destination)
CdConstruct ==
    /\ cdpc = "idle"
    /\ \E destination \in Destinations : cdobj' = CdInit(cwd, destination)
    /\ cdhist' = [NoHist EXCEPT !.constructed = cwd]
    /\ cdpc' = "ready"
    /\ UNCHANGED <<fs, cwd>>
    /\ UNCHANGED runVars

\* code between the construction of the object and the with-statement changes
\* the working directory
ChdirBefore ==
    /\ cdpc = "ready"
    /\ \E d \in DOMAIN fs \cup {<<>>} : d # cwd /\ IsDir(fs, d) /\ cwd' = d
    /\ UNCHANGED <<fs, cdobj, cdpc, cdhist>>
    /\ UNCHANGED runVars

\* with c: __enter__; when it raises the block is not run and __exit__ not called
CdEnter ==
    /\ cdpc = "ready"
    /\ LET r == Chdir(fs, cwd, EnterDir(cdobj))
       IN  /\ cwd' = r.cwd
           /\ cdpc' = IF r.ok THEN "body" ELSE "failed"
           /\ cdhist' = [cdhist EXCEPT !.entry = cwd, !.inside = r.cwd,
                                       !.exit = "none", !.restored = FALSE]
    /\ UNCHANGED <<fs, cdobj>>
    /\ UNCHANGED runVars

\* the block changes the working directory
BodyChdir ==
    /\ cdpc = "body"
    /\ \E d \in DOMAIN fs \cup {<<>>} : d # cwd /\ IsDir(fs, d) /\ cwd' = d
    /\ UNCHANGED <<fs, cdobj, cdpc, cdhist>>
    /\ UNCHANGED runVars

\* the block removes an empty directory other than the working directory
BodyRmdir ==
    /\ cdpc = "body"
    /\ \E d \in DOMAIN fs :
         /\ d # cwd
         /\ ListDir(fs, d) = <<>>
         /\ fs' = RmTree(fs, d)
    /\ UNCHANGED <<cwd, cdobj, cdpc, cdhist>>
    /\ UNCHANGED runVars

\* the block ends, normally or by an exception: __exit__
CdExit ==
    /\ cdpc = "body"
    /\ \E kind \in {"normal", "exception"} :
         LET r == Chdir(fs, cwd, ExitDir(cdobj))
         IN  /\ cwd' = r.cwd
             /\ cdhist' = [cdhist EXCEPT !.exit = kind, !.restored = r.ok]
    /\ cdpc' = "after"
    /\ UNCHANGED <<fs, cdobj>>
    /\ UNCHANGED runVars

\* the same object is used by another with-statement
CdReuse ==
    /\ cdpc \in {"after", "failed"}
    /\ cdpc' = "ready"
    /\ UNCHANGED <<fs, cwd, cdobj, cdhist>>
    /\ UNCHANGED runVars

NextCd ==
    \/ CdConstruct
    \/ ChdirBefore
    \/ CdEnter
    \/ BodyChdir
    \/ BodyRmdir
    \/ CdExit
    \/ CdReuse

SpecCd == InitCdRun /\ [][NextCd]_vars

------------------------------------------------------------------------------
(* The claims.                                                             *)

\* the candidate roots of a call: the base directory, or base/S for each
\* sub-directory S given, its leading slashes stripped
CandidateRoots(a) ==
    IF "sub_directories" \notin a.keywords THEN <<ParsePath(a.directory)>>
    ELSE [i \in 1..Len(a.sub_directories) |->
             ParsePath(a.directory) \o ParsePath(LStrip(a.sub_directories[i], {"/"}))]

RootsExist == \A r \in Range(CandidateRoots(args)) : Exists(fs, r)

Constructed == pc \notin {"ctor", "off"}

LastName(pattern) == LET c == ParsePath(pattern) IN c[Len(c)]

\* the files a resolved location stands for: itself, or every file below it
SourceFiles(f, loc) == IF IsDir(f, loc) THEN FilesBelow(f, loc) ELSE {loc}

CopiedSources == UNION {SourceFiles(fsData, loc) : loc \in Range(data.locations_to_copy)}

\* C1: constructed with no pattern, locations_to_copy is exactly the ordered
\* list of candidate roots: [base_directory] with no sub_directories, and
\* [base_directory/S1, ..., base_directory/Sn] for sub_directories [S1..Sn]
\* that all exist.
C1_NoPatternResolvesRoots ==
    (Constructed /\ "pattern" \notin args.keywords /\ args.keywords \subseteq CtorKeywords
       /\ RootsExist)
    => /\ data.status = "ok"
       /\ data.locations_to_copy = CandidateRoots(args)

\* C2: constructed with a pattern, locations_to_copy is exactly the matches
\* of the pattern under each candidate root, by root and then by match order;
\* every resolved name matches the pattern and no candidate root is resolved.
C2_PatternResolvesMatches ==
    (Constructed /\ "pattern" \in args.keywords /\ args.keywords \subseteq CtorKeywords
       /\ RootsExist)
    => /\ data.status = "ok"
       /\ data.locations_to_copy
            = GlobLoop(fs, CandidateRoots(args), args.pattern, <<>>)
       /\ \A loc \in Range(data.locations_to_copy) :
            /\ FnMatch(Name(loc), LastName(args.pattern))
            /\ loc \notin Range(CandidateRoots(args))

\* C3: with recursive set, every entry at any depth below the base directory
\* whose name matches the pattern is resolved, and nothing else; with
\* recursive unset only the matching direct children are. (Stated for the
\* one-component patterns and no sub_directories.)
C3_RecursiveFlagHonoured ==
    (Constructed /\ args.pattern \in {S_json, S_yaml}
       /\ "sub_directories" \notin args.keywords /\ "flatten" \notin args.keywords)
    => LET base == ParsePath(args.directory)
           deep == {p \in DOMAIN fs : IsPrefix(base, p) /\ Len(p) > Len(base)
                                        /\ FnMatch(Name(p), args.pattern)}
           direct == {p \in deep : Len(p) = Len(base) + 1}
       IN  /\ data.status = "ok"
           /\ Range(data.locations_to_copy)
                = IF "recursive" \in args.keywords THEN deep ELSE direct

\* C4: when the copy step has run, every file at B/r that a resolved location
\* stands for is at <destination root>/r with its content, and no file was
\* written at any other path.
C4_CopyPreservesRelativePaths ==
    pc = "cleanup"
    => LET B == data.directory
           expected == {DstRoot(data) \o Drop(p, Len(B)) : p \in CopiedSources}
       IN  /\ \A p \in CopiedSources :
                LET q == DstRoot(data) \o Drop(p, Len(B))
                IN  IsFile(fs, q) /\ fs[q] = fsData[p]
           /\ \A q \in DOMAIN fs :
                (IsFile(fs, q) /\ (q \notin DOMAIN fsData \/ fsData[q] # fs[q]))
                => q \in expected

\* C5: with flatten set the data set is constructed, and when the copy step
\* has run every matched file is directly under the destination root, with
\* the content of a matched file of that name.
C5_FlattenCopiesToRoot ==
    ("flatten" \in args.keywords /\ RootsExist)
    => /\ Constructed => data.status = "ok"
       /\ pc = "cleanup"
            => \A p \in CopiedSources :
                 LET q == Append(DstRoot(data), Name(p))
                 IN  /\ IsFile(fs, q)
                     /\ \E p2 \in CopiedSources : Name(p2) = Name(p) /\ fs[q] = fsData[p2]

\* C6: an app directory with requirements.txt and the package folder, no build
\* directory, the installer succeeding, the data set of pattern '*.json'
\* (recursive) and make_zip: bundle() returns, and the build directory holds
\* the dependency, the package source, the three JSON files at their mirrored
\* paths, not sub2.yaml, and the archive.
C6_BundleRoundTrip ==
    (/\ args.directory = S_appdata
     /\ args.keywords = {"pattern", "recursive"}
     /\ args.pattern = S_json
     /\ args.supplemental_data /\ args.make_zip
     /\ Exists(fs0, Append(app_directory, S_requirements))
     /\ ~Exists(fs0, build_directory)
     /\ args.installer_status # 1
     /\ pc = "done")
    => LET b == build_directory
       IN  /\ outcome = "returned"
           /\ IsDir(fs, Append(b, N_toml))
           /\ IsFile(fs, Append(b, N_main_py))
           /\ IsFile(fs, b \o <<N_data, N_test_json>>)
           /\ IsFile(fs, b \o <<N_data, N_test2_json>>)
           /\ IsFile(fs, b \o <<N_data, N_sub, N_sub_json>>)
           /\ ~Exists(fs, b \o <<N_data, N_sub, N_sub2_yaml>>)
           /\ IsFile(fs, Append(b, package_name \o S_dotzip))

\* the answers that are 'Y' once trimmed and upper-cased
YesAnswers == {A_Y, A_y, A_y_sp}

\* C7: the build directory existing, it is deleted and recreated if and only
\* if the answer is 'Y' after trimming and ignoring case; for every other
\* answer bundle() returns without error, the file system is as it was, and
\* no install, copy, cleanup or zip step is run.
C7_OverwriteOnlyOnY ==
    args.decision # NoAnswer
    => IF args.decision \in YesAnswers
       THEN /\ ~Exists(fs, Append(build_directory, N_old_txt))
            /\ IsDir(fs, build_directory)
            /\ Len(steps) = 1 => (pc = "install" /\ outcome = "none")
       ELSE /\ pc = "done"
            /\ outcome = "returned"
            /\ fs = fs0
            /\ steps = <<"mkdir">>
            /\ installs = 0

C7_Witness ==
    /\ args.decision = A_yes
    /\ pc = "done"
    /\ outcome = "returned"
    /\ Exists(fs, Append(build_directory, N_old_txt))

StepOrder == <<"mkdir", "install", "supplemental", "cleanup", "zip">>

Raised == outcome \notin {"none", "returned"}

C8_Order ==
    /\ Len(steps) <= Len(StepOrder)
    /\ steps = SubSeq(StepOrder, 1, Len(steps))
    /\ "zip" \in Range(steps) => args.make_zip
    /\ installs <= 1
    /\ (~Exists(fs0, Append(app_directory, S_requirements))
          /\ ~Exists(fs0, Append(app_directory, S_setup))) =>
         /\ installs = 0
         /\ "install" \in Range(steps) => (outcome = "ValueError" /\ Len(steps) = 2)
    /\ args.installer_status = 1 => (outcome = "CalledProcessError" /\ Len(steps) = 2)
    /\ Raised => pc = "done"
    /\ (pc = "done" /\ outcome = "returned" /\ Len(steps) > 1)
         => steps = SubSeq(StepOrder, 1, IF args.make_zip THEN 5 ELSE 4)

\* C8: the steps of bundle() run in the order create-build-directory, install,
\* copy supplemental data, cleanup, zip (zip only if make_zip), each at most
\* once; once a step raises (no manifest, the installer exiting non-zero) no
\* step runs again and nothing changes; with no manifest the installer is
\* never run.
C8_SequentialFailFast ==
    /\ []C8_Order
    /\ [][outcome # "none"
            => (steps' = steps /\ fs' = fs /\ installs' = installs
                  /\ outcome' = outcome)]_vars

C8_Witness ==
    /\ pc = "done"
    /\ outcome = "CalledProcessError"
    /\ installs = 1
    /\ steps = <<"mkdir", "install">>

UnderBuild(p) == IsPrefix(build_directory, p) /\ Len(p) > Len(build_directory)

\* at or inside a __pycache__ directory of the tree _cleanup_files was given
InPycache(p) ==
    \E k \in 1..Len(p) :
        /\ UnderBuild(SubSeq(p, 1, k))
        /\ p[k] = S_pycache
        /\ fsClean[SubSeq(p, 1, k)] = "dir"

IsPycFile(f, p) == UnderBuild(p) /\ IsFile(f, p) /\ Suffix(Name(p)) = S_dotpyc

CleanupDone ==
    \/ pc = "walking" /\ walk = <<>>
    \/ pc = "zip"
    \/ pc = "done" /\ steps # <<>> /\ steps[Len(steps)] = "cleanup"

C10_Clean ==
    /\ (steps # <<>> /\ steps[Len(steps)] = "cleanup") => ~Raised
    /\ CleanupDone =>
         /\ \A p \in DOMAIN fs :
              UnderBuild(p) => ~(fs[p] = "dir" /\ Name(p) = S_pycache)
         /\ \A p \in DOMAIN fs : ~IsPycFile(fs, p)
         /\ DOMAIN fs \subseteq DOMAIN fsClean
         /\ \A p \in DOMAIN fsClean :
              (~InPycache(p) /\ ~IsPycFile(fsClean, p))
              => (p \in DOMAIN fs /\ fs[p] = fsClean[p])

\* what os.walk has left to do: the directories still to list and all the
\* directories below them
RECURSIVE WalkMeasure(_, _)
WalkMeasure(f, todo) ==
    IF todo = <<>> THEN 0
    ELSE WalkMeasure(f, Tail(todo))
         + (IF IsDir(f, Head(todo)) THEN Len(DirsBelow(f, Head(todo))) ELSE 1)

\* C10: _cleanup_files ends without raising (each iteration of its loop
\* leaves os.walk less to do, and none raises), and when it has ended no
\* directory named __pycache__ and no file of suffix .pyc is left at any depth
\* under the build directory, while everything that is neither is as it was.
C10_CleanupRemovesBytecode ==
    /\ []C10_Clean
    /\ [][(pc = "walking" /\ walk # <<>>)
            => (pc' = "walking" /\ WalkMeasure(fs', walk') < WalkMeasure(fs, walk))]_vars

C10_Witness ==
    /\ pc = "zip"
    /\ IsFile(fsClean, build_directory \o <<S_pycache, S_pycache, N_x_pyc>>)
    /\ IsDir(fsClean, build_directory \o <<N_toml, N_sub, S_pycache>>)
    /\ IsFile(fs, build_directory \o <<N_data, N_test_json>>)

\* the directory a destination of the model names, seen from directory c
ExpectedDest(c, text) ==
    IF text = D_a THEN <<<<"a">>>>
    ELSE IF text = D_ab THEN <<<<"a">>, <<"b">>>>
    ELSE IF text = D_up THEN (IF c = <<>> THEN c ELSE Parent(c))
    ELSE Append(c, <<"b">>)

C9_InsideAndOnFailure ==
    /\ cdpc \in {"body", "after"} => cdhist.inside = ExpectedDest(cdhist.entry, cdobj.new_dir)
    /\ cdpc = "failed" => (cwd = cdhist.entry /\ cdhist.inside = cdhist.entry)

\* C9 as claimed: on entering the block the working directory is the
\* destination; after the block, ended normally or by an exception, it is the
\* directory that was current when the block was entered; if changing to the
\* destination fails, it is unchanged.
C9_RestoresEntryDirectory ==
    /\ C9_InsideAndOnFailure
    /\ cdpc = "after" => cwd = cdhist.entry

\* C9 amended: after the block the working directory is the directory that
\* was current when the cd object was constructed, provided that directory
\* still exists; if it does not, __exit__ raises.
C9_RestoresConstructionDirectory ==
    /\ C9_InsideAndOnFailure
    /\ cdpc = "after" =>
         IF IsDir(fs, cdhist.constructed)
         THEN cwd = cdhist.constructed /\ cdhist.restored
         ELSE ~cdhist.restored

C9_Witness ==
    /\ cdpc = "after"
    /\ cdhist.exit = "exception"
    /\ cwd = cdhist.constructed
    /\ cdhist.entry # cdhist.constructed
    /\ cdhist.inside # cdhist.constructed

====
